---- MODULE Spec2Model ----
(***************************************************************************)
(* Model of notebooks/misc/MarkovChains.ipynb: the tokenizer (cell 4), the *)
(* order-1 and order-2 chain builders (cells 6 and 11) and the order-1 and *)
(* order-2 walkers (cell 9, cell 13 / markov_tweet).                       *)
(*                                                                         *)
(* A Python string is a sequence of characters; a character is a one-      *)
(* character TLA+ string.  A token is a non-empty Python string.           *)
(***************************************************************************)
EXTENDS Integers, Sequences, FiniteSets, TLC

VARIABLES
    order,     \* which pair of cells runs: 1 (cells 6, 9) or 2 (cells 11, markov_tweet)
    words,     \* the corpus: a sequence of tokens
    chain,     \* dict: key -> list of successor tokens
    i,         \* loop index of enumerate(words) in the builder
    r,         \* index of the start drawn by random.choice / random.randint; -1 before
    key,       \* walker context: w1 (order 1) or the tuple key (order 2)
    tweet,     \* the output string being built
    printed,   \* what print() was handed; <<>> before
    err,       \* the exception that ended the run, or "none"
    pc,        \* position of the run
    text,      \* tokenizer: the bytes of the file object
    pos,       \* tokenizer: how many bytes of text have been read
    twords     \* tokenizer: the words list of cell 4

vars == <<order, words, chain, i, r, key, tweet, printed, err, pc, text, pos, twords>>

----------------------------------------------------------------------------
(* Bounds *)

MaxCorpus == 4
MaxText == 4

(* the tweet length of both walkers: while len(tweet) < 140 *)
TargetLen == 140

Str(c, n) == [j \in 1..n |-> c]

(* Tokens of three lengths: 34 (a walk passes 139 characters), 69 and 140. *)
Tokens == {Str("a", 34), Str("b", 69), Str("c", 140)}

(* the example of the notebook's third cell *)
The == <<"t", "h", "e">>
Brown == <<"b", "r", "o", "w", "n">>
Fox == <<"f", "o", "x">>
Jumped == <<"j", "u", "m", "p", "e", "d">>
Over == <<"o", "v", "e", "r">>
Lazy == <<"l", "a", "z", "y">>
Dog == <<"d", "o", "g">>
Phrase == <<The, Brown, Fox, Jumped, Over, The, Lazy, Dog>>

RECURSIVE SeqsUpTo(_, _)
SeqsUpTo(S, n) ==
    IF n = 0 THEN {<<>>}
    ELSE LET P == SeqsUpTo(S, n - 1)
         IN  P \cup {Append(s, x) : s \in {q \in P : Len(q) = n - 1}, x \in S}

----------------------------------------------------------------------------
(* Chain builders *)

Put(d, k, v) == [x \in (DOMAIN d) \cup {k} |-> IF x = k THEN v ELSE d[x]]

EmptyDict == [x \in {} |-> <<>>]

(* BuildStep1 with chain[key] = [word] in both branches *)
BuildStep1_Overwrite ==
    /\ pc = "build" /\ order = 1 /\ i < Len(words)
    /\ chain' = IF Len(words) > i + 1
                THEN Put(chain, words[i + 1], <<words[i + 2]>>)
                ELSE chain
    /\ i' = i + 1
    /\ UNCHANGED <<order, words, r, key, tweet, printed, err, pc, text, pos, twords>>

(* BuildStep1 with the entry of key created before the test for a successor *)
BuildStep1_EntryFirst ==
    /\ pc = "build" /\ order = 1 /\ i < Len(words)
    /\ LET k == words[i + 1]
           d == IF k \notin DOMAIN chain THEN Put(chain, k, <<>>) ELSE chain
       IN  chain' = IF Len(words) > i + 1
                    THEN Put(d, k, Append(d[k], words[i + 2]))
                    ELSE d
    /\ i' = i + 1
    /\ UNCHANGED <<order, words, r, key, tweet, printed, err, pc, text, pos, twords>>

(* for i, key in enumerate(words): if n_words > (i + 1): ... *)
BuildStep1 ==
    /\ pc = "build" /\ order = 1 /\ i < Len(words)
    /\ chain' = IF Len(words) > i + 1
                THEN LET k == words[i + 1]
                         word == words[i + 2]
                     IN  IF k \notin DOMAIN chain
                         THEN Put(chain, k, <<word>>)
                         ELSE Put(chain, k, Append(chain[k], word))
                ELSE chain
    /\ i' = i + 1
    /\ UNCHANGED <<order, words, r, key, tweet, printed, err, pc, text, pos, twords>>

(* BuildStep2 with the test n_words > i + 3 *)
BuildStep2_SkipsLastWindow ==
    /\ pc = "build" /\ order = 2 /\ i < Len(words)
    /\ chain' = IF Len(words) > i + 3
                THEN LET key1 == words[i + 1]
                         key2 == words[i + 2]
                         word == words[i + 3]
                     IN  IF <<key1, key2>> \notin DOMAIN chain
                         THEN Put(chain, <<key1, key2>>, <<word>>)
                         ELSE Put(chain, <<key1, key2>>,
                                  Append(chain[<<key1, key2>>], word))
                ELSE chain
    /\ i' = i + 1
    /\ UNCHANGED <<order, words, r, key, tweet, printed, err, pc, text, pos, twords>>

(* for i, key1 in enumerate(words): if n_words > i + 2: ... *)
BuildStep2 ==
    /\ pc = "build" /\ order = 2 /\ i < Len(words)
    /\ chain' = IF Len(words) > i + 2
                THEN LET key1 == words[i + 1]
                         key2 == words[i + 2]
                         word == words[i + 3]
                     IN  IF <<key1, key2>> \notin DOMAIN chain
                         THEN Put(chain, <<key1, key2>>, <<word>>)
                         ELSE Put(chain, <<key1, key2>>,
                                  Append(chain[<<key1, key2>>], word))
                ELSE chain
    /\ i' = i + 1
    /\ UNCHANGED <<order, words, r, key, tweet, printed, err, pc, text, pos, twords>>

BuildEnd ==
    /\ pc = "build" /\ i = Len(words)
    /\ pc' = "start"
    /\ UNCHANGED <<order, words, chain, i, r, key, tweet, printed, err, text, pos, twords>>

----------------------------------------------------------------------------
(* Walkers *)

Raise(e) ==
    /\ err' = e
    /\ pc' = "error"

(* the loop test as len(tweet) < 139 *)
LoopCond_StopsAt139(t) == Len(t) < TargetLen - 1

(* the loop test as len(tweet) <= 140 *)
LoopCond_Inclusive(t) == Len(t) <= TargetLen

(* the loop test of both walkers: len(tweet) < 140 *)
LoopCond(t) == Len(t) < TargetLen

(* w1 = random.choice(words); tweet = w1 *)
Start1 ==
    /\ pc = "start" /\ order = 1
    /\ IF Len(words) = 0
       THEN /\ Raise("IndexError")
            /\ UNCHANGED <<r, key, tweet>>
       ELSE \E rr \in 0..(Len(words) - 1) :
               /\ r' = rr
               /\ key' = words[rr + 1]
               /\ tweet' = words[rr + 1]
               /\ pc' = "loop"
               /\ err' = err
    /\ UNCHANGED <<order, words, chain, i, printed, text, pos, twords>>

(* r = random.randint(0, len(words) - 1); key = (words[r], words[r + 1]) *)
(* tweet = key[0] + ' ' + key[1]                                         *)
Start2 ==
    /\ pc = "start" /\ order = 2
    /\ IF 0 > Len(words) - 1
       THEN /\ Raise("ValueError")
            /\ UNCHANGED <<r, key, tweet>>
       ELSE \E rr \in 0..(Len(words) - 1) :
               /\ r' = rr
               /\ IF rr + 1 >= Len(words)
                  THEN /\ Raise("IndexError")
                       /\ UNCHANGED <<key, tweet>>
                  ELSE /\ key' = <<words[rr + 1], words[rr + 2]>>
                       /\ tweet' = words[rr + 1] \o <<" ">> \o words[rr + 2]
                       /\ pc' = "loop"
                       /\ err' = err
    /\ UNCHANGED <<order, words, chain, i, printed, text, pos, twords>>

(* Walk1 with tweet = ' ' + w2 in place of tweet += ' ' + w2 *)
Walk1_Assigns ==
    /\ pc = "loop" /\ order = 1
    /\ Len(tweet) < TargetLen
    /\ IF key \notin DOMAIN chain
       THEN /\ Raise("KeyError")
            /\ UNCHANGED <<key, tweet>>
       ELSE \E j \in 1..Len(chain[key]) :
               LET w2 == chain[key][j]
               IN  /\ tweet' = <<" ">> \o w2
                   /\ key' = w2
                   /\ UNCHANGED <<pc, err>>
    /\ UNCHANGED <<order, words, chain, i, r, printed, text, pos, twords>>

(* while len(tweet) < 140: w2 = random.choice(chain[w1]); ... *)
Walk1 ==
    /\ pc = "loop" /\ order = 1
    /\ LoopCond(tweet)
    /\ IF key \notin DOMAIN chain
       THEN /\ Raise("KeyError")
            /\ UNCHANGED <<key, tweet>>
       ELSE \E j \in 1..Len(chain[key]) :
               LET w2 == chain[key][j]
               IN  /\ tweet' = tweet \o <<" ">> \o w2
                   /\ key' = w2
                   /\ UNCHANGED <<pc, err>>
    /\ UNCHANGED <<order, words, chain, i, r, printed, text, pos, twords>>

(* Walk2 with key = (key[0], w) *)
Walk2_KeepsOldest ==
    /\ pc = "loop" /\ order = 2
    /\ Len(tweet) < TargetLen
    /\ IF key \notin DOMAIN chain
       THEN /\ Raise("KeyError")
            /\ UNCHANGED <<key, tweet>>
       ELSE \E j \in 1..Len(chain[key]) :
               LET w == chain[key][j]
               IN  /\ tweet' = tweet \o <<" ">> \o w
                   /\ key' = <<key[1], w>>
                   /\ UNCHANGED <<pc, err>>
    /\ UNCHANGED <<order, words, chain, i, r, printed, text, pos, twords>>

(* while len(tweet) < 140: w = random.choice(chain[key]); ... *)
Walk2 ==
    /\ pc = "loop" /\ order = 2
    /\ LoopCond(tweet)
    /\ IF key \notin DOMAIN chain
       THEN /\ Raise("KeyError")
            /\ UNCHANGED <<key, tweet>>
       ELSE \E j \in 1..Len(chain[key]) :
               LET w == chain[key][j]
               IN  /\ tweet' = tweet \o <<" ">> \o w
                   /\ key' = <<key[2], w>>
                   /\ UNCHANGED <<pc, err>>
    /\ UNCHANGED <<order, words, chain, i, r, printed, text, pos, twords>>

(* print(tweet) *)
Print1 ==
    /\ pc = "loop" /\ order = 1
    /\ ~LoopCond(tweet)
    /\ printed' = tweet
    /\ pc' = "done"
    /\ UNCHANGED <<order, words, chain, i, r, key, tweet, err, text, pos, twords>>

(* print(tweet + '\n') *)
Print2 ==
    /\ pc = "loop" /\ order = 2
    /\ ~LoopCond(tweet)
    /\ printed' = tweet \o <<"\n">>
    /\ pc' = "done"
    /\ UNCHANGED <<order, words, chain, i, r, key, tweet, err, text, pos, twords>>

----------------------------------------------------------------------------
(* Tokenizer *)

Ascii == {"a", " ", "\t", "\r", "\n"}

(* a byte >= 0x80 that starts no valid UTF-8 sequence in this alphabet *)
HighByte == "xE9"

Bytes == Ascii \cup {HighByte}

(* line.decode('utf-8-sig', errors='ignore'): invalid bytes are dropped *)
Decode(line) == SelectSeq(line, LAMBDA c : c # HighByte)

(* line.encode('ascii', errors='ignore'): non-ASCII characters are dropped *)
Encode(line) == SelectSeq(line, LAMBDA c : c \in Ascii)

(* str.replace(old, new) for one-character old and new *)
Replace(s, old, new) == [j \in 1..Len(s) |-> IF s[j] = old THEN new ELSE s[j]]

(* index of the first sep in s, 0 when there is none *)
Find(s, sep) ==
    IF \E j \in 1..Len(s) : s[j] = sep
    THEN CHOOSE j \in 1..Len(s) : s[j] = sep /\ \A m \in 1..(j - 1) : s[m] # sep
    ELSE 0

(* str.split(sep) for a one-character sep *)
RECURSIVE Split(_, _)
Split(s, sep) ==
    LET p == Find(s, sep)
    IN  IF p = 0 THEN <<s>>
        ELSE <<SubSeq(s, 1, p - 1)>> \o Split(SubSeq(s, p + 1, Len(s)), sep)

(* the next line of the file object: up to and including the first '\n' *)
FirstLine(t) ==
    LET p == Find(t, "\n")
    IN  IF p = 0 THEN t ELSE SubSeq(t, 1, p)

(* TokLine without line.replace('\r', ' ') *)
TokLine_KeepsCR ==
    /\ pc = "tok" /\ pos < Len(text)
    /\ LET line0 == FirstLine(SubSeq(text, pos + 1, Len(text)))
           line1 == Encode(Decode(line0))
           line2 == Replace(line1, "\n", " ")
           new_words == SelectSeq(Split(line2, " "),
                                  LAMBDA word : word \notin {<<>>, <<" ">>})
       IN  /\ twords' = twords \o new_words
           /\ pos' = pos + Len(line0)
    /\ UNCHANGED <<order, words, chain, i, r, key, tweet, printed, err, pc, text>>

(* body of: for line in text *)
TokLine ==
    /\ pc = "tok" /\ pos < Len(text)
    /\ LET line0 == FirstLine(SubSeq(text, pos + 1, Len(text)))
           line1 == Encode(Decode(line0))
           line2 == Replace(Replace(line1, "\r", " "), "\n", " ")
           new_words == SelectSeq(Split(line2, " "),
                                  LAMBDA word : word \notin {<<>>, <<" ">>})
       IN  /\ twords' = twords \o new_words
           /\ pos' = pos + Len(line0)
    /\ UNCHANGED <<order, words, chain, i, r, key, tweet, printed, err, pc, text>>

(* the file is exhausted: print('Corpus size: ...') *)
TokEnd ==
    /\ pc = "tok" /\ pos = Len(text)
    /\ pc' = "tokdone"
    /\ UNCHANGED <<order, words, chain, i, r, key, tweet, printed, err, text, pos, twords>>

----------------------------------------------------------------------------

Init ==
    /\ order \in {1, 2}
    /\ words \in SeqsUpTo(Tokens, MaxCorpus) \cup {Phrase}
    /\ chain = EmptyDict
    /\ i = 0
    /\ r = -1
    /\ key = <<>>
    /\ tweet = <<>>
    /\ printed = <<>>
    /\ err = "none"
    /\ pc = "build"
    /\ text = <<>>
    /\ pos = 0
    /\ twords = <<>>

Next ==
    \/ BuildStep1
    \/ BuildStep2
    \/ BuildEnd
    \/ Start1
    \/ Start2
    \/ Walk1
    \/ Walk2
    \/ Print1
    \/ Print2

Spec == Init /\ [][Next]_vars

(* The notebook is one sequential run: a cell that can step does step. *)
FairSpec == Spec /\ WF_vars(Next)

TokInit ==
    /\ order = 1
    /\ words = <<>>
    /\ chain = EmptyDict
    /\ i = 0
    /\ r = -1
    /\ key = <<>>
    /\ tweet = <<>>
    /\ printed = <<>>
    /\ err = "none"
    /\ pc = "tok"
    /\ text \in SeqsUpTo(Bytes, MaxText)
    /\ pos = 0
    /\ twords = <<>>

TokNext ==
    \/ TokLine
    \/ TokEnd

TokSpec == TokInit /\ [][TokNext]_vars

----------------------------------------------------------------------------
(* Vocabulary of the properties *)

(* the n-token window of C at the 1-based position p, in the shape of a key *)
Window(C, p, n) == IF n = 1 THEN C[p] ELSE <<C[p], C[p + 1]>>

(* the windows of C that are followed by a token *)
KeysOf(C, n) == {Window(C, p, n) : p \in 1..(Len(C) - n)}

(* all n-token windows of C *)
WindowsOf(C, n) == {Window(C, p, n) : p \in 1..(Len(C) - n + 1)}

(* the tokens that follow k in C, in the order of occurrence *)
Followers(C, k, n) ==
    LET idx == [p \in 1..(Len(C) - n) |-> p]
        occ == SelectSeq(idx, LAMBDA p : Window(C, p, n) = k)
    IN  [j \in 1..Len(occ) |-> C[occ[j] + n]]

(* ' '.join of the tokens of a key *)
Render(k, n) == IF n = 1 THEN k ELSE k[1] \o <<" ">> \o k[2]

(* the newest token of a context *)
LastToken(k, n) == IF n = 1 THEN k ELSE k[2]

IsPrefix(s, t) == Len(s) <= Len(t) /\ SubSeq(t, 1, Len(s)) = s

(* the tokens of the tweet; no token holds a space *)
Out == Split(tweet, " ")

Walking == pc \in {"loop", "done"}

(* the start context the walker drew *)
StartKey == Window(words, r + 1, order)

----------------------------------------------------------------------------
(* C1: once the builder has finished, the keys of the chain are exactly   *)
(* the N-token windows of the corpus that are followed by a token, and    *)
(* the list of a key holds the token after each of its occurrences, in    *)
(* corpus order with duplicates kept; for the notebook's phrase and N = 1 *)
(* the list of 'the' is [brown, lazy].                                    *)
C1_ChainIsWindowTable ==
    pc # "build" =>
        /\ DOMAIN chain = KeysOf(words, order)
        /\ \A k \in DOMAIN chain : chain[k] = Followers(words, k, order)
        /\ (words = Phrase /\ order = 1) => chain[The] = <<Brown, Lazy>>

C1_Witness ==
    /\ pc = "start"
    /\ \E k \in DOMAIN chain :
          /\ Len(chain[k]) >= 2
          /\ chain[k][1] = chain[k][2]

(* C2: for a corpus of at least N+1 tokens, every start the walker can    *)
(* draw lies in [0, len(words) - N] and its context is a key of the chain. *)
C2_StartContextIsKey ==
    (Len(words) >= order + 1 /\ r >= 0) =>
        /\ r <= Len(words) - order
        /\ StartKey \in DOMAIN chain

(* C3 as stated: with the start index in [0, len(words) - N - 1], the     *)
(* context has an entry in the chain at every iteration of the loop.      *)
C3_NoMissingContext ==
    (pc = "loop" /\ r >= 0 /\ r <= Len(words) - order - 1 /\ LoopCond(tweet)) =>
        key \in DOMAIN chain

(* C3 amended: with the start index in [0, len(words) - N - 1], the first *)
(* lookup succeeds, the context is an N-token window of the corpus at     *)
(* every iteration, and a lookup fails only for a context that occurs in  *)
(* the corpus as its last N tokens and nowhere before.                    *)
C3_MissingContextOnlyAtCorpusEnd ==
    (r >= 0 /\ r <= Len(words) - order - 1 /\ pc \in {"loop", "done", "error"}) =>
        /\ key \in WindowsOf(words, order)
        /\ tweet = Render(StartKey, order) => key \in DOMAIN chain
        /\ key \notin DOMAIN chain =>
              /\ key = Window(words, Len(words) - order + 1, order)
              /\ key \notin KeysOf(words, order)
        /\ pc = "error" => (err = "KeyError" /\ key \notin DOMAIN chain)

C3_Witness ==
    /\ pc = "error" /\ err = "KeyError"
    /\ r >= 0 /\ r <= Len(words) - order - 1
    /\ Len(Out) > order

(* C4: a printed tweet has at least 140 characters and begins with the    *)
(* space-joined tokens of the start context that was drawn.               *)
C4_LongEnoughAndStartsWithContext ==
    pc = "done" =>
        /\ Len(tweet) >= TargetLen
        /\ IsPrefix(Render(StartKey, order), tweet)
        /\ IsPrefix(tweet, printed)

C4_Witness ==
    /\ pc = "done"
    /\ Len(Out) >= order + 3

(* C5: for a corpus of fewer than N+1 tokens the builder runs through     *)
(* without an error and leaves the chain empty.                           *)
C5_ShortCorpusEmptyChain ==
    Len(words) < order + 1 =>
        /\ chain = EmptyDict
        /\ pc = "build" => err = "none"
        /\ pc # "build" => i = Len(words)

C5_Witness ==
    /\ pc = "start"
    /\ Len(words) = order
    /\ i = order

(* C6: on a corpus of fewer than N+1 tokens the walker never prints.      *)
C6_ShortCorpusNeverPrints ==
    Len(words) < order + 1 => pc # "done"

(* C7 as stated: a text of spaces, tabs, carriage returns and line feeds  *)
(* only (or no text at all) yields no token, and no token is ever empty.  *)
C7_WhitespaceYieldsNoToken ==
    /\ (pc = "tokdone" /\ \A j \in 1..Len(text) : text[j] \in {" ", "\t", "\r", "\n"})
          => twords = <<>>
    /\ \A j \in 1..Len(twords) : twords[j] # <<>>

(* C7 amended: a text of spaces, carriage returns and line feeds only (or *)
(* no text at all) yields no token, and no token is ever empty; a tab is  *)
(* not a separator.                                                       *)
C7_BlankYieldsNoToken ==
    /\ (pc = "tokdone" /\ \A j \in 1..Len(text) : text[j] \in {" ", "\r", "\n"})
          => twords = <<>>
    /\ \A j \in 1..Len(twords) : twords[j] # <<>>

C7_Witness ==
    /\ pc = "tokdone"
    /\ Len(text) >= 3
    /\ \A j \in 1..Len(text) : text[j] \in {" ", "\r", "\n"}
    /\ \E j \in 1..Len(text) : text[j] = "\r"
    /\ \E j \in 1..(Len(text) - 1) : text[j] = "\n"

(* C8: once a token has been appended, the tweet before the last append   *)
(* was shorter than 140, so the tweet is at most 140 + len(last token)    *)
(* long; what is printed holds the whole tweet.                           *)
C8_OvershootAtMostLastToken ==
    (Walking /\ Len(Out) > order) =>
        LET last == Out[Len(Out)]
        IN  /\ Len(tweet) - (1 + Len(last)) < TargetLen
            /\ Len(tweet) <= TargetLen + Len(last)
            /\ pc = "done" => IsPrefix(tweet, printed)

C8_Witness ==
    /\ pc = "done"
    /\ Len(Out) > order
    /\ Len(tweet) > TargetLen

(* C9: every iteration of the walk loop makes the tweet longer by one     *)
(* separator and the sampled token, no walk makes more than 140           *)
(* iterations, the loop is left only by printing a tweet of at least 140  *)
(* characters or by a failed lookup, and every walk is left.              *)
C9_WalkTerminates ==
    /\ [][(pc = "loop" /\ pc' = "loop") =>
             Len(tweet') = Len(tweet) + 1 + Len(LastToken(key', order))]_vars
    /\ [][(pc = "loop" /\ pc' # "loop") =>
             \/ pc' = "done" /\ Len(tweet) >= TargetLen
             \/ pc' = "error" /\ err' = "KeyError"]_vars
    /\ [](Walking => Len(Out) - order <= TargetLen)
    /\ (pc = "loop") ~> (pc \in {"done", "error"})

C9_Witness ==
    /\ pc = "done"
    /\ Len(Out) = order + 3
    /\ Len(tweet) = 174

(* C10: during a walk the context is the last N tokens of the tweet, and  *)
(* every N+1 consecutive tokens of the tweet are N+1 consecutive tokens   *)
(* of the corpus.                                                         *)
C10_OutputWindowsAreCorpusWindows ==
    Walking =>
        /\ Len(Out) >= order
        /\ key = Window(Out, Len(Out) - order + 1, order)
        /\ \A p \in 1..(Len(Out) - order) :
              \E q \in 1..(Len(words) - order) :
                 SubSeq(Out, p, p + order) = SubSeq(words, q, q + order)

C10_Witness ==
    /\ pc = "loop"
    /\ Len(Out) >= order + 2
    /\ \E p \in 1..(Len(Out) - 1) : Out[p] # Out[p + 1]

====
